---- MODULE Spec2Model ----
(***************************************************************************)
(* Data-Quality-Review-Hub: the edit / validate / merge / log / reload      *)
(* cycle of the Streamlit console (src/app.py), the store-facing functions  *)
(* of src/models/shop_orders.py, the session state of src/init_state.py     *)
(* and the filters of src/controllers/filters.py.                           *)
(*                                                                          *)
(* Three specifications share the module:                                   *)
(*   Spec          one browser session driving the console;                 *)
(*   ValidateSpec  validate_changes_against_schema on bounded inputs;       *)
(*   MergeSpec     merge_changes called directly on bounded change sets.    *)
(***************************************************************************)
EXTENDS Integers, Sequences, FiniteSets, TLC

VARIABLES
    live,             \* the store's table: primary key -> row
    pending,          \* the pending-approval table (set of audit records)
    stage,            \* temp table STREAMLIT_TABLE_BASE_CHANGES (a frame)
    now,              \* the store's current_timestamp()
    lockConfigured,   \* LOCK_COL is set in constants
    df,               \* st.session_state.df
    original_df,      \* st.session_state.original_df
    filtered_df,      \* st.session_state.filtered_df
    filters_string,   \* st.session_state.filters_string
    edit_mode,        \* st.session_state.edit_mode
    edited,           \* what st.data_editor returns (edited_df)
    message,          \* what the last script run showed the user
    callLog,          \* store calls of the last handler, in order
    lastStmt,         \* the last merge statement sent to the store
    ret,              \* the last return value of merge_changes
    vIn,              \* ValidateSpec: the changes_df passed in
    vMeta,            \* ValidateSpec: what the schema query returns
    vOut,             \* ValidateSpec: the outcome of the call
    column_tags,      \* models.shop_orders.column_tags, the module's registry
    tRaw,             \* TagSpec: the table the last load_data() fetched
    loads,            \* TagSpec: the loads made so far
    editors,          \* EditorsSpec: each editor's session and progress
    mergeOrder        \* EditorsSpec: the editors in the order of their merges

appVars == <<live, pending, stage, now, lockConfigured, df,
             original_df, filtered_df, filters_string, edit_mode, edited,
             message, callLog, lastStmt, ret>>
valVars == <<vIn, vMeta, vOut>>
tagVars == <<column_tags, tRaw, loads>>
conVars == <<editors, mergeOrder>>
auxVars == <<valVars, tagVars, conVars>>
vars == <<appVars, auxVars>>

----------------------------------------------------------------------------
(* Bounds of the model *)

\* rows of the store's table
NRows == 2
\* values current_timestamp() takes: 0 .. MaxTime
MaxTime == 1
\* rows of a change set handed to the validator in ValidateSpec
MaxValRows == 2
\* rows of a change set handed to merge_changes in MergeSpec
MaxMergeRows == 2

----------------------------------------------------------------------------
(* Cell values.  A value is modelled by the text str(value) yields:         *)
(*   "null"  None / NaN (dropped by dropna)                                 *)
(*   "str"   a text of the letters i (codes from 10 up), no decimal literal *)
(*   "dec"   digits i, "." and digits f when f is not empty, "E<e>" when    *)
(*           e is not 0                                                     *)
(*   "inf"   the literals Decimal accepts as non-finite: inf, Infinity, NaN *)
(*   "ts"    a timestamp, i = <<t>>                                         *)

NULL == [k |-> "null", i |-> <<>>, f |-> <<>>, e |-> 0]
Text(chars) == [k |-> "str", i |-> chars, f |-> <<>>, e |-> 0]
Dec(i, f, e) == [k |-> "dec", i |-> i, f |-> f, e |-> e]
NonFinite == [k |-> "inf", i |-> <<>>, f |-> <<>>, e |-> 0]
Ts(t) == [k |-> "ts", i |-> <<t>>, f |-> <<>>, e |-> 0]
Int1(n) == Dec(<<n>>, <<>>, 0)

\* pandas notna / dropna
notna(v) == v.k # "null"

\* len(str(value)), as series.astype(str).str.len() computes it
StrLen(v) ==
    CASE v.k = "str" -> Len(v.i)
      [] v.k = "dec" -> Len(v.i) + (IF Len(v.f) > 0 THEN 1 + Len(v.f) ELSE 0)
                        + (IF v.e # 0 THEN 3 ELSE 0)
      [] v.k = "inf" -> 3
      [] v.k = "ts"  -> 19
      [] OTHER       -> 0

RECURSIVE StripZeros(_)
\* the coefficient of a Decimal keeps no leading zero
StripZeros(s) ==
    IF s = <<>> THEN <<>>
    ELSE IF Head(s) = 0 THEN StripZeros(Tail(s)) ELSE s

\* Decimal(str(value)).copy_abs().as_tuple(): "invalid" stands for
\* InvalidOperation, and a non-finite Decimal has a text exponent ('F', 'n')
as_tuple(v) ==
    CASE v.k = "dec" ->
           LET c == StripZeros(v.i \o v.f)
           IN [kind |-> "finite",
               digits |-> IF c = <<>> THEN <<0>> ELSE c,
               exponent |-> v.e - Len(v.f)]
      [] v.k = "inf" -> [kind |-> "nonfinite", digits |-> <<0>>, exponent |-> 0]
      [] OTHER -> [kind |-> "invalid", digits |-> <<>>, exponent |-> 0]

Max(a, b) == IF a >= b THEN a ELSE b

----------------------------------------------------------------------------
(* Columns.  Display names are what clean_column_names produces, store      *)
(* names what _db_col_name produces from them.                              *)

PkCol == "ID"
StatusCol == "Status"
AmountCol == "Amount"
LockCol == "Updated At"
ColOrder == <<PkCol, StatusCol, AmountCol, LockCol>>
Cols == {ColOrder[j] : j \in 1..Len(ColOrder)}
EditableCols == {StatusCol, AmountCol}

_db_col_name(c) ==
    CASE c = "ID" -> "ID"
      [] c = "Status" -> "STATUS"
      [] c = "Amount" -> "AMOUNT"
      [] c = "Updated At" -> "UPDATED_AT"

format_col(c) ==
    CASE c = "ID" -> "ID"
      [] c = "STATUS" -> "Status"
      [] c = "AMOUNT" -> "Amount"
      [] c = "UPDATED_AT" -> "Updated At"

DbCols == {_db_col_name(c) : c \in Cols}

\* the columns of a frame in the frame's column order
RECURSIVE OrderedCols(_, _)
OrderedCols(cs, order) ==
    IF order = <<>> THEN <<>>
    ELSE (IF Head(order) \in cs THEN <<Head(order)>> ELSE <<>>)
         \o OrderedCols(cs, Tail(order))

----------------------------------------------------------------------------
(* Constraint Validator: validate_changes_against_schema                    *)

\* NA in a metadata cell (pd.notna fails)
NA == -1

IsCharKind(dtype) == dtype \in {"CHAR", "VARCHAR", "TEXT", "STRING"}
IsNumberKind(dtype) == dtype \in {"NUMBER", "DECIMAL", "NUMERIC", "FIXED"}

\* the values of one column of a frame, in row order, nulls dropped
RECURSIVE dropna(_, _)
dropna(rows, c) ==
    IF rows = <<>> THEN <<>>
    ELSE (IF notna(Head(rows)[c]) THEN <<Head(rows)[c]>> ELSE <<>>)
         \o dropna(Tail(rows), c)

\* what the body of the NUMBER loop does with one value: "pass" goes on to
\* the next value, "error" appends a message and breaks, "raise" is the
\* TypeError of comparing a text exponent with 0
CheckNumber(v, precision_int, scale_int) ==
    LET t == as_tuple(v)
        int_digits == IF t.exponent >= 0
                      THEN Len(t.digits) + t.exponent
                      ELSE Max(Len(t.digits) + t.exponent, 0)
        frac_digits == IF t.exponent >= 0 THEN 0 ELSE 0 - t.exponent
        total_digits == int_digits + frac_digits
        max_int_digits == Max(precision_int - scale_int, 0)
    IN  IF t.kind = "invalid"
        THEN [r |-> "error", type |-> "invalid", value |-> v]
        ELSE IF t.kind = "nonfinite"
        THEN [r |-> "raise", type |-> "TypeError", value |-> v]
        ELSE IF frac_digits > scale_int
        THEN [r |-> "error", type |-> "scale", value |-> v]
        ELSE IF int_digits > max_int_digits \/ total_digits > precision_int
        THEN [r |-> "error", type |-> "precision", value |-> v]
        ELSE [r |-> "pass", type |-> "", value |-> v]

RECURSIVE NumberLoop(_, _, _)
\* for value in changes_df[display_col].dropna(): ... break
NumberLoop(vals, p, s) ==
    IF vals = <<>> THEN [r |-> "pass", type |-> "", value |-> NULL]
    ELSE LET one == CheckNumber(Head(vals), p, s)
         IN IF one.r = "pass" THEN NumberLoop(Tail(vals), p, s) ELSE one

RECURSIVE FirstTooLong(_, _)
\* too_long = series[series.str.len() > max_len_int]; too_long.iloc[0]
FirstTooLong(vals, max_len_int) ==
    IF vals = <<>> THEN [r |-> "pass", type |-> "", value |-> NULL]
    ELSE IF StrLen(Head(vals)) > max_len_int
         THEN [r |-> "error", type |-> "length", value |-> Head(vals)]
         ELSE FirstTooLong(Tail(vals), max_len_int)

\* one pass of the loop over changes_df.columns
ValidateColumn(frame, meta, display_col) ==
    LET db_col == _db_col_name(display_col)
        nothing == [r |-> "pass", type |-> "", value |-> NULL]
    IN  IF db_col \notin DOMAIN meta THEN nothing
        ELSE LET row == meta[db_col]
                 vals == dropna(frame.rows, display_col)
             IN  IF IsCharKind(row.dtype)
                 THEN IF row.max_len # NA
                      THEN FirstTooLong(vals, row.max_len)
                      ELSE nothing
                 ELSE IF IsNumberKind(row.dtype) /\ row.precision # NA
                      THEN NumberLoop(vals, row.precision,
                                      IF row.scale # NA THEN row.scale ELSE 0)
                      ELSE nothing

RECURSIVE ValidateColumns(_, _, _)
\* the errors list built column by column; a raise ends the call
ValidateColumns(frame, meta, cols) ==
    IF cols = <<>> THEN [r |-> "list", errors |-> <<>>]
    ELSE LET one == ValidateColumn(frame, meta, Head(cols))
         IN  IF one.r = "raise" THEN [r |-> "raise", errors |-> <<>>]
             ELSE LET rest == ValidateColumns(frame, meta, Tail(cols))
                  IN  IF rest.r = "raise" THEN rest
                      ELSE [r |-> "list",
                            errors |->
                              (IF one.r = "error"
                               THEN <<[col |-> Head(cols), type |-> one.type,
                                       value |-> one.value]>>
                               ELSE <<>>) \o rest.errors]

\* DataFrame.empty: no rows or no columns
empty(frame) == frame.rows = <<>> \/ frame.cols = {}

\* the whole function; meta is what get_table_schema_metadata returned
validate_changes_against_schema(frame, meta) ==
    IF empty(frame) THEN [r |-> "list", errors |-> <<>>]
    ELSE IF DOMAIN meta = {} THEN [r |-> "list", errors |-> <<>>]
    ELSE ValidateColumns(frame, meta, OrderedCols(frame.cols, ColOrder))

----------------------------------------------------------------------------
(* The store: the live table, the two temp tables, the pending table        *)

RowIds == 1..NRows
StoreCalls == <<"schema", "stage_write", "merge", "pending_stage_write",
                "ensure_pending", "insert_pending", "load">>
FailPoints == {StoreCalls[j] : j \in 1..Len(StoreCalls)} \cup {"none"}

\* what information_schema.columns holds for the table
SchemaMeta ==
    [d \in DbCols |->
       CASE d = "ID" ->
              [dtype |-> "NUMBER", max_len |-> NA, precision |-> 2, scale |-> 0]
         [] d = "STATUS" ->
              [dtype |-> "TEXT", max_len |-> 1, precision |-> NA, scale |-> NA]
         [] d = "AMOUNT" ->
              [dtype |-> "NUMBER", max_len |-> NA, precision |-> 2, scale |-> 1]
         [] d = "UPDATED_AT" ->
              [dtype |-> "TIMESTAMP_NTZ", max_len |-> NA, precision |-> NA,
               scale |-> NA]]

\* values the store holds in the two editable columns at the start
StatusVals == {Text(<<10>>), Text(<<11>>)}
AmountVals == {Int1(1), Dec(<<2>>, <<5>>, 0)}
\* values a user types into a cell of the editor
EditVals(c) ==
    IF c = StatusCol THEN StatusVals \cup {Text(<<10, 11>>)}
    ELSE AmountVals

emptyFrame == [cols |-> {}, rows |-> <<>>]
noStmt == [set |-> {}, stamp |-> FALSE, sent |-> FALSE]
\* merge_changes has not returned (it was not called, or it raised)
NoReturn == -1

\* a store session: the tables, the clock, the calls made, what was raised
StoreState(lv, st, pd, t) ==
    [live |-> lv, stage |-> st, pending |-> pd, pendingStage |-> <<>>,
     now |-> t, calls |-> <<>>, raised |-> FALSE,
     stmt |-> noStmt, ret |-> NoReturn,
     logged |-> 0]

\* changes_df.columns = [col.upper().replace(" ", "_") ...]
UpperFrame(frame) ==
    [cols |-> {_db_col_name(c) : c \in frame.cols},
     rows |-> [j \in 1..Len(frame.rows) |->
                 [d \in {_db_col_name(c) : c \in frame.cols} |->
                    frame.rows[j][format_col(d)]]]]

\* exclude_cols holding the key columns only
update_cols_keys_only(stagedCols, lockCfg) ==
    {c \in stagedCols : c # _db_col_name(PkCol)}

\* exclude_cols and update_cols of merge_changes
update_cols(stagedCols, lockCfg) ==
    LET pk_cols_db == {_db_col_name(PkCol)}
        exclude_cols == pk_cols_db \cup
                        (IF lockCfg THEN {_db_col_name(LockCol)} ELSE {})
    IN  {c \in stagedCols : c \notin exclude_cols}

\* merge into TABLE prd using STAGE src on prd.pk = src.pk
\* when matched then update set prd.c = src.c ..., prd.lock = current_timestamp()
MergeStatement(lv, staged, setCols, lockCfg, t) ==
    [r \in DOMAIN lv |->
       LET src == {j \in 1..Len(staged.rows) :
                     staged.rows[j][_db_col_name(PkCol)] = lv[r][_db_col_name(PkCol)]}
       IN  IF src = {} THEN lv[r]
           ELSE LET s == staged.rows[CHOOSE j \in src : TRUE]
                IN  [d \in DOMAIN lv[r] |->
                       IF d \in setCols THEN s[d]
                       ELSE IF lockCfg /\ d = _db_col_name(LockCol) THEN Ts(t)
                       ELSE lv[r][d]]]

\* the early return left out
NoDelta_never(f) == FALSE

\* if changes_df.empty: return 0
NoDelta(f) == empty(f)

\* merge_changes(changes_df); fail names the store call that fails, if any
merge_changes(S, changes_df, lockCfg, fail) ==
    LET f == UpperFrame(changes_df)
    IN  IF NoDelta(f) THEN [S EXCEPT !.ret = 0]
        ELSE
          LET S1 == [S EXCEPT !.calls = Append(@, "stage_write")]
          IN  IF fail = "stage_write" THEN [S1 EXCEPT !.raised = TRUE]
              ELSE
                LET setCols == update_cols(f.cols, lockCfg)
                    S2 == [S1 EXCEPT !.stage = f,
                                     !.calls = Append(@, "merge"),
                                     !.stmt = [set |-> setCols, stamp |-> lockCfg,
                                               sent |-> TRUE]]
                IN  \* an empty set list is not a statement the store accepts
                    IF fail = "merge" \/ setCols = {}
                    THEN [S2 EXCEPT !.raised = TRUE]
                    ELSE [S2 EXCEPT !.now = @ + 1,
                                    !.live = MergeStatement(S.live, f, setCols,
                                                            lockCfg, S.now + 1),
                                    !.ret = Len(f.rows)]

\* insert into PENDING_TABLE (...) select ... from PENDING_STAGE_TABLE
InsertPending(pd, staged, t) ==
    pd \cup {[pk |-> staged[j].pk, column_name |-> staged[j].column_name,
              old_value |-> staged[j].old_value,
              new_value |-> staged[j].new_value,
              changed_at |-> t, approval_status |-> "PENDING"] :
             j \in 1..Len(staged)}

\* log_pending_changes(change_log_df)
log_pending_changes(S, change_log_df, fail) ==
    IF change_log_df = <<>> THEN [S EXCEPT !.logged = 0]
    ELSE
      LET S1 == [S EXCEPT !.calls = Append(@, "pending_stage_write")]
      IN  IF fail = "pending_stage_write" THEN [S1 EXCEPT !.raised = TRUE]
          ELSE
            LET S2 == [S1 EXCEPT !.pendingStage = change_log_df,
                                 !.calls = Append(@, "ensure_pending")]
            IN  IF fail = "ensure_pending" THEN [S2 EXCEPT !.raised = TRUE]
                ELSE
                  LET S3 == [S2 EXCEPT !.calls = Append(@, "insert_pending")]
                  IN  IF fail = "insert_pending" THEN [S3 EXCEPT !.raised = TRUE]
                      ELSE [S3 EXCEPT
                              !.pending = InsertPending(S.pending, change_log_df,
                                                        S.now),
                              !.logged = Len(change_log_df)]

\* clean_column_names applied to one fetched row
clean_column_names(row) ==
    [c \in {format_col(d) : d \in DOMAIN row} |-> row[_db_col_name(c)]]

\* load_data(): select * from TABLE order by the primary key
load_data(lv) == [j \in 1..NRows |-> clean_column_names(lv[j])]

----------------------------------------------------------------------------
(* The session: filters, the displayed view, the change detector            *)

\* the neutral choice of a filter selectbox
ALL == [k |-> "all", i |-> <<>>, f |-> <<>>, e |-> 0]

\* constants.MAX_ROWS: the rows the table widget shows
MAX_ROWS == 2

RECURSIVE SelectRows(_, _, _)
\* filtered[filtered[col] == val]
SelectRows(rows, col, val) ==
    IF rows = <<>> THEN <<>>
    ELSE (IF Head(rows)[col] = val THEN <<Head(rows)>> ELSE <<>>)
         \o SelectRows(Tail(rows), col, val)

\* apply_filters(df): the table has one string column, no boolean column and,
\* in this model, no entry in column_tags
apply_filters(d, fs) ==
    IF fs[StatusCol] # ALL THEN SelectRows(d, StatusCol, fs[StatusCol]) ELSE d

\* the filters reset_filters installs
reset_filters == [c \in {StatusCol} |-> ALL]

\* .head(MAX_ROWS).reset_index(drop=True)
head(d, n) == IF Len(d) <= n THEN d ELSE SubSeq(d, 1, n)
df_to_show(fd) == head(fd, MAX_ROWS)

\* the options of the Status selectbox: "All" and the values in df
FilterOptions(d) == {ALL} \cup {d[j][StatusCol] : j \in {n \in 1..Len(d) : notna(d[n][StatusCol])}}

\* the row of a snapshot with a given primary key
RowOf(d, key) == d[CHOOSE j \in 1..Len(d) : d[j][PkCol] = key]
HasRow(d, key) == \E j \in 1..Len(d) : d[j][PkCol] = key

\* the columns the detector compares: not the key, not the lock column
CompareCols == Cols \ {PkCol, LockCol}
ChangedColsOf(e, o) == {c \in CompareCols : e[c] # o[c]}

RECURSIVE ChangedRows(_, _, _)
ChangedRows(ed, orig, cs) ==
    IF ed = <<>> THEN <<>>
    ELSE LET e == Head(ed)
             ch == IF HasRow(orig, e[PkCol])
                   THEN ChangedColsOf(e, RowOf(orig, e[PkCol])) ELSE {}
         IN  (IF ch = {} THEN <<>>
              ELSE <<[c \in cs |-> IF c = PkCol \/ c \in ch THEN e[c] ELSE NULL]>>)
             \o ChangedRows(Tail(ed), orig, cs)

\* get_changed_rows(edited_df, original_df): the sparse changed-cells matrix,
\* one row per changed row, the key and the columns changed in some row,
\* a cell holding its new value where it changed and null where it did not
get_changed_rows(ed, orig) ==
    LET changed == UNION {IF HasRow(orig, ed[j][PkCol])
                          THEN ChangedColsOf(ed[j], RowOf(orig, ed[j][PkCol]))
                          ELSE {} : j \in 1..Len(ed)}
    IN  IF changed = {} THEN emptyFrame
        ELSE [cols |-> {PkCol} \cup changed,
              rows |-> ChangedRows(ed, orig, {PkCol} \cup changed)]

RECURSIVE RowRecords(_, _, _)
RowRecords(row, orig, cols) ==
    IF cols = <<>> THEN <<>>
    ELSE (IF Head(cols) # PkCol /\ notna(row[Head(cols)])
          THEN <<[pk |-> row[PkCol], column_name |-> Head(cols),
                  old_value |-> RowOf(orig, row[PkCol])[Head(cols)],
                  new_value |-> row[Head(cols)]]>>
          ELSE <<>>)
         \o RowRecords(row, orig, Tail(cols))

RECURSIVE LogRecords(_, _, _)
LogRecords(rows, orig, cols) ==
    IF rows = <<>> THEN <<>>
    ELSE RowRecords(Head(rows), orig, cols) \o LogRecords(Tail(rows), orig, cols)

\* build_change_log(changes_df, original_df): one record per changed cell
build_change_log(changes, orig) ==
    LogRecords(changes.rows, orig, OrderedCols(changes.cols, ColOrder))

----------------------------------------------------------------------------
(* The Save Changes handler of app.py                                       *)

\* the gate left out: the handler goes on whatever the validator returned
ValidationGate_ignored(errors) == FALSE

\* if validation_errors: ... st.stop()
ValidationGate(errors) == errors # <<>>

\* a handler that also leaves edit mode
except_handler_leaves_edit(sess) == [sess EXCEPT !.edit_mode = FALSE]

\* except Exception: log and show the error; no session key is assigned
except_handler(sess) == sess

\* refresh_data() followed by the rerun that honours reset_filters_pending
refresh_data(sess, lv) ==
    [sess EXCEPT !.df = load_data(lv),
                 !.filtered_df = load_data(lv),
                 !.filters_string = reset_filters]

\* the handler from get_changed_rows to refresh_data: the store it leaves
\* and what the user is shown
SaveHandler(S0, ed, orig, lockCfg, fail) ==
    LET changes_df == get_changed_rows(ed, orig)
    IN  IF empty(changes_df) THEN [store |-> S0, outcome |-> "no_changes"]
        ELSE
          LET S1 == [S0 EXCEPT !.calls = Append(@, "schema")]
              v == validate_changes_against_schema(changes_df, SchemaMeta)
          IN  IF fail = "schema" \/ v.r = "raise"
              THEN [store |-> [S1 EXCEPT !.raised = TRUE], outcome |-> "error"]
              ELSE IF ValidationGate(v.errors)
              THEN [store |-> S1, outcome |-> "validation_failed"]
              ELSE
                LET change_log_df == build_change_log(changes_df, orig)
                    S2 == merge_changes(S1, changes_df, lockCfg, fail)
                    S3 == log_pending_changes(S2, change_log_df, fail)
                    S4 == [S3 EXCEPT !.calls = Append(@, "load")]
                IN  IF S2.raised THEN [store |-> S2, outcome |-> "error"]
                    ELSE IF S3.raised THEN [store |-> S3, outcome |-> "error"]
                    ELSE IF fail = "load"
                    THEN [store |-> [S4 EXCEPT !.raised = TRUE],
                          outcome |-> "error"]
                    ELSE [store |-> S4, outcome |-> "saved"]

Session == [df |-> df, original_df |-> original_df, filtered_df |-> filtered_df,
            filters_string |-> filters_string, edit_mode |-> edit_mode,
            edited |-> edited]

SetSession(sess) ==
    /\ df' = sess.df
    /\ original_df' = sess.original_df
    /\ filtered_df' = sess.filtered_df
    /\ filters_string' = sess.filters_string
    /\ edit_mode' = sess.edit_mode
    /\ edited' = sess.edited

\* the session the handler leaves
SessionAfterSave(sess, run) ==
    IF run.outcome = "saved"
    THEN LET r == refresh_data(sess, run.store.live)
         IN  [r EXCEPT !.edit_mode = FALSE, !.edited = df_to_show(r.filtered_df)]
    ELSE IF run.outcome = "error" THEN except_handler(sess)
    ELSE sess

SaveChanges(fail) ==
    /\ edit_mode
    /\ now < MaxTime
    /\ LET run == SaveHandler(StoreState(live, stage, pending, now),
                              edited, original_df, lockConfigured, fail)
           S == run.store
       IN  /\ fail = "none" \/ (S.raised /\ S.calls # <<>>
                                /\ S.calls[Len(S.calls)] = fail)
           /\ live' = S.live
           /\ stage' = S.stage
           /\ pending' = S.pending
           /\ now' = S.now
           /\ callLog' = S.calls
           /\ lastStmt' = S.stmt
           /\ ret' = S.ret
           /\ message' = run.outcome
           /\ SetSession(SessionAfterSave(Session, run))
    /\ UNCHANGED <<lockConfigured, auxVars>>

\* the snapshot taken from the displayed view instead of the base data
OriginalAtEdit_view(d, fd) == df_to_show(fd)

\* st.session_state.original_df = st.session_state.df.copy(deep=True)
OriginalAtEdit(d, fd) == d

\* the Edit Table button
EditTable ==
    /\ ~edit_mode
    /\ original_df' = OriginalAtEdit(df, filtered_df)
    /\ edit_mode' = TRUE
    /\ edited' = df_to_show(filtered_df)
    /\ message' = "none"
    /\ callLog' = <<>>
    /\ lastStmt' = noStmt
    /\ ret' = NoReturn
    /\ UNCHANGED <<live, pending, stage, now, lockConfigured, df,
                   filtered_df, filters_string, auxVars>>

\* the user commits one cell of the editor
EditCell(pos, c, v) ==
    /\ edit_mode
    /\ pos \in 1..Len(edited)
    /\ edited[pos][c] # v
    /\ edited' = [edited EXCEPT ![pos][c] = v]
    /\ message' = "none"
    /\ callLog' = <<>>
    /\ lastStmt' = noStmt
    /\ ret' = NoReturn
    /\ UNCHANGED <<live, pending, stage, now, lockConfigured, df,
                   original_df, filtered_df, filters_string, edit_mode,
                   auxVars>>

\* the Apply Filters button
ApplyFilters(val) ==
    /\ val \in FilterOptions(df)
    /\ filters_string' = [c \in {StatusCol} |-> val]
    /\ filtered_df' = apply_filters(df, [c \in {StatusCol} |-> val])
    /\ edited' = df_to_show(apply_filters(df, [c \in {StatusCol} |-> val]))
    /\ message' = "none"
    /\ callLog' = <<>>
    /\ lastStmt' = noStmt
    /\ ret' = NoReturn
    /\ UNCHANGED <<live, pending, stage, now, lockConfigured, df,
                   original_df, edit_mode, auxVars>>

\* the Reset Filters button and the rerun that calls reset_filters
ResetFilters ==
    /\ filters_string' = reset_filters
    /\ filtered_df' = df
    /\ edited' = df_to_show(df)
    /\ message' = "none"
    /\ callLog' = <<>>
    /\ lastStmt' = noStmt
    /\ ret' = NoReturn
    /\ UNCHANGED <<live, pending, stage, now, lockConfigured, df,
                   original_df, edit_mode, auxVars>>

----------------------------------------------------------------------------
(* Spec: one session of the console                                         *)

\* the table as the first load finds it: row n has key n, the rows differ
\* in Status so that a filter can hide one
InitialRow(n) ==
    [d \in DbCols |->
       CASE d = "ID" -> Int1(n)
         [] d = "STATUS" -> IF n = 1 THEN Text(<<10>>) ELSE Text(<<11>>)
         [] d = "AMOUNT" -> Int1(1)
         [] d = "UPDATED_AT" -> Ts(0)]

InitialTable == [n \in RowIds |-> InitialRow(n)]

noCall == [r |-> "none", errors |-> <<>>]

InitStore ==
    /\ live = InitialTable
    /\ pending = {}
    /\ now = 0
    /\ lockConfigured \in BOOLEAN
    /\ callLog = <<>>
    /\ lastStmt = noStmt
    /\ ret = NoReturn

\* init_state() on a fresh session
InitSession ==
    /\ df = load_data(live)
    /\ original_df = load_data(live)
    /\ filtered_df = load_data(live)
    /\ filters_string = reset_filters
    /\ edit_mode = FALSE
    /\ edited = df_to_show(load_data(live))
    /\ message = "none"

\* column_tags = {} at import, no load made
noTags == [c \in {} |-> NULL]
InitTagsIdle ==
    /\ column_tags = noTags
    /\ tRaw = [c \in {} |-> <<>>]
    /\ loads = 0

\* no second editor
InitEditorsIdle ==
    /\ editors = [e \in {} |-> NULL]
    /\ mergeOrder = <<>>

Init ==
    /\ InitStore
    /\ stage = emptyFrame
    /\ InitSession
    /\ vIn = emptyFrame
    /\ vMeta = SchemaMeta
    /\ vOut = noCall
    /\ InitTagsIdle
    /\ InitEditorsIdle

Next ==
    \/ EditTable
    \/ \E pos \in 1..MAX_ROWS, c \in EditableCols : \E v \in EditVals(c) :
         EditCell(pos, c, v)
    \/ \E val \in StatusVals \cup {ALL} : ApplyFilters(val)
    \/ ResetFilters
    \/ \E fail \in FailPoints : SaveChanges(fail)

Spec == Init /\ [][Next]_vars

----------------------------------------------------------------------------
(* ValidateSpec: validate_changes_against_schema on bounded inputs          *)

\* the session and the store stay as a fresh session finds them
InitIdle ==
    /\ InitStore
    /\ InitSession

\* cells of a change set: null where the cell did not change
ValStatusVals == {NULL, Text(<<10>>), Text(<<10, 11>>)}
ValAmountVals == {NULL, Int1(1), Dec(<<0>>, <<5>>, 0), Dec(<<1>>, <<2, 5>>, 0),
                  Dec(<<1, 2>>, <<>>, 0), Dec(<<1>>, <<>>, 1), NonFinite,
                  Text(<<10>>)}

ValRow(cs, n, sv, av) ==
    [c \in cs |-> CASE c = PkCol -> Int1(n)
                    [] c = StatusCol -> sv
                    [] c = AmountCol -> av
                    [] OTHER -> NULL]

ValRowsAt(cs, n) ==
    {ValRow(cs, n, sv, av) :
       sv \in (IF StatusCol \in cs THEN ValStatusVals ELSE {NULL}),
       av \in (IF AmountCol \in cs THEN ValAmountVals ELSE {NULL})}

RECURSIVE ValRowSeqs(_, _)
ValRowSeqs(cs, n) ==
    IF n = 0 THEN {<<>>}
    ELSE {Append(p, r) : p \in ValRowSeqs(cs, n - 1), r \in ValRowsAt(cs, n)}

ValFramesOf(cs) ==
    {[cols |-> cs, rows |-> rs] :
       rs \in UNION {ValRowSeqs(cs, n) : n \in 0..MaxValRows}}

ValFrames ==
    {emptyFrame} \cup
    UNION {ValFramesOf({PkCol} \cup cs) : cs \in SUBSET {StatusCol, AmountCol}}

\* rows of the schema query for the two editable columns
StatusMetas ==
    {[dtype |-> "TEXT", max_len |-> 1, precision |-> NA, scale |-> NA],
     [dtype |-> "TEXT", max_len |-> NA, precision |-> NA, scale |-> NA]}
AmountMetas ==
    {[dtype |-> "NUMBER", max_len |-> NA, precision |-> 2, scale |-> 1],
     [dtype |-> "NUMBER", max_len |-> NA, precision |-> 1, scale |-> NA],
     [dtype |-> "NUMBER", max_len |-> NA, precision |-> NA, scale |-> NA],
     [dtype |-> "FLOAT", max_len |-> NA, precision |-> NA, scale |-> NA]}
IdMeta == [dtype |-> "NUMBER", max_len |-> NA, precision |-> 2, scale |-> 0]

MetaOf(ds, sm, am) ==
    [d \in ds |-> CASE d = "STATUS" -> sm [] d = "AMOUNT" -> am [] OTHER -> IdMeta]

ValMetas ==
    {MetaOf(ds, sm, am) :
       ds \in {{}, {"ID", "STATUS"}, {"ID", "AMOUNT"}, {"ID", "STATUS", "AMOUNT"}},
       sm \in StatusMetas, am \in AmountMetas}

InitValidate ==
    /\ InitIdle
    /\ lockConfigured = TRUE
    /\ stage = emptyFrame
    /\ vIn \in ValFrames
    /\ vMeta \in ValMetas
    /\ vOut = noCall
    /\ InitTagsIdle
    /\ InitEditorsIdle

ValidateCall ==
    /\ vOut.r = "none"
    /\ vOut' = validate_changes_against_schema(vIn, vMeta)
    /\ UNCHANGED <<appVars, vIn, vMeta, tagVars, conVars>>

NextValidate == ValidateCall

ValidateSpec == InitValidate /\ [][NextValidate]_vars

----------------------------------------------------------------------------
(* MergeSpec: merge_changes called on bounded change sets                   *)

\* staged rows carry a key of the table or one key the table does not hold
MergeKeys == 1..(NRows + 1)

MergeRow(cs, n, sv, av, lv) ==
    [c \in cs |-> CASE c = PkCol -> Int1(n)
                    [] c = StatusCol -> sv
                    [] c = AmountCol -> av
                    [] c = LockCol -> lv]

MergeRowsAt(cs, n) ==
    {MergeRow(cs, n, sv, av, lv) :
       sv \in (IF StatusCol \in cs THEN {NULL, Text(<<12>>)} ELSE {NULL}),
       av \in (IF AmountCol \in cs THEN {NULL, Dec(<<2>>, <<5>>, 0)} ELSE {NULL}),
       lv \in (IF LockCol \in cs THEN {NULL, Ts(0)} ELSE {NULL})}

RECURSIVE MergeRowSeqs(_, _, _)
\* up to n rows with keys above lo, in key order
MergeRowSeqs(cs, n, lo) ==
    {<<>>} \cup
    (IF n = 0 THEN {}
     ELSE UNION {{<<r>> \o t : r \in MergeRowsAt(cs, key),
                               t \in MergeRowSeqs(cs, n - 1, key)} :
                 key \in {m \in MergeKeys : m > lo}})

MergeFramesOf(cs) ==
    {[cols |-> cs, rows |-> rs] : rs \in MergeRowSeqs(cs, MaxMergeRows, 0)}

MergeFrames ==
    {emptyFrame} \cup
    UNION {MergeFramesOf({PkCol} \cup cs) :
             cs \in SUBSET {StatusCol, AmountCol, LockCol}}

\* what an earlier call left in the temp table
OldStage ==
    [cols |-> {"ID", "STATUS"},
     rows |-> <<[d \in {"ID", "STATUS"} |->
                   IF d = "ID" THEN Int1(1) ELSE Text(<<11>>)]>>]

InitMerge ==
    /\ InitIdle
    /\ stage \in {emptyFrame, OldStage}
    /\ vIn \in MergeFrames
    /\ vMeta = SchemaMeta
    /\ vOut = noCall
    /\ InitTagsIdle
    /\ InitEditorsIdle

MergeCall(fail) ==
    /\ vOut.r = "none"
    /\ now < MaxTime
    /\ LET S == merge_changes(StoreState(live, stage, pending, now), vIn,
                              lockConfigured, fail)
       IN  /\ fail = "none" \/ (S.raised /\ S.calls # <<>>
                                /\ S.calls[Len(S.calls)] = fail)
           /\ live' = S.live
           /\ stage' = S.stage
           /\ now' = S.now
           /\ callLog' = S.calls
           /\ lastStmt' = S.stmt
           /\ ret' = S.ret
           /\ vOut' = [r |-> IF S.raised THEN "raise" ELSE "returned",
                       errors |-> <<>>]
    /\ UNCHANGED <<pending, lockConfigured, df, original_df, filtered_df,
                   filters_string, edit_mode, edited, message, vIn, vMeta,
                   tagVars, conVars>>

NextMerge == \E fail \in {"none", "stage_write", "merge"} : MergeCall(fail)

MergeSpec == InitMerge /\ [][NextMerge]_vars

----------------------------------------------------------------------------
(* Properties                                                               *)

\* the change set the Save handler would compute in the current state
PendingChanges == get_changed_rows(edited, original_df)

\* the validator returns a non-empty list for the current edits
ValidatorRejects ==
    /\ ~empty(PendingChanges)
    /\ validate_changes_against_schema(PendingChanges, SchemaMeta).r = "list"
    /\ validate_changes_against_schema(PendingChanges, SchemaMeta).errors # <<>>

Calls(log) == {log[j] : j \in 1..Len(log)}
IndexOf(log, name) == CHOOSE j \in 1..Len(log) : log[j] = name

\* C1: a Save whose validation returns a non-empty list is aborted: no
\* staging write, merge, log insert or reload is made, and the live table,
\* the pending table, df, original_df and edit_mode are unchanged.
C1_ValidationAbortsSave ==
    [][(message' # "none" /\ edit_mode /\ ValidatorRejects) =>
         /\ Calls(callLog') \subseteq {"schema"}
         /\ UNCHANGED <<live, pending, df, original_df, edit_mode>>]_vars

C1_Witness ==
    /\ message = "validation_failed"
    /\ callLog = <<"schema">>
    /\ ValidatorRejects
    /\ Len(PendingChanges.rows) = 2

\* the cell of the staged change set for a key and a store column, null when
\* the change set does not hold it
StagedCell(key, d) ==
    IF d \in stage.cols /\ \E j \in 1..Len(stage.rows) : stage.rows[j]["ID"] = key
    THEN stage.rows[CHOOSE j \in 1..Len(stage.rows) : stage.rows[j]["ID"] = key][d]
    ELSE NULL

\* C2: after a save (merge_changes applied, table reloaded) every changed cell
\* holds its new value and every other cell holds its original value.
C2_RoundTrip ==
    message = "saved" =>
      \A j \in 1..Len(df) : \A c \in EditableCols :
        df[j][c] = IF notna(StagedCell(df[j][PkCol], _db_col_name(c)))
                   THEN StagedCell(df[j][PkCol], _db_col_name(c))
                   ELSE RowOf(original_df, df[j][PkCol])[c]

\* C3: every cell change applied to the live table has a record in the
\* pending-approval table.
C3_AuditCoversEveryChange ==
    [][\A n \in RowIds : \A d \in {_db_col_name(c) : c \in EditableCols} :
         live'[n][d] # live[n][d] =>
           \E p \in pending' : /\ p.pk = live[n]["ID"]
                               /\ p.column_name = format_col(d)
                               /\ p.new_value = live'[n][d]]_vars

\* C4: a successful save runs validate, then the log insert, then the merge,
\* then the reload.
C4_LogBeforeMerge ==
    message = "saved" =>
      /\ {"schema", "insert_pending", "merge", "load"} \subseteq Calls(callLog)
      /\ IndexOf(callLog, "schema") < IndexOf(callLog, "insert_pending")
      /\ IndexOf(callLog, "insert_pending") < IndexOf(callLog, "merge")
      /\ IndexOf(callLog, "merge") < IndexOf(callLog, "load")

\* C5: a save that fails at a store call shows the error, has made every store
\* call at most once, and leaves df, original_df and edit_mode as they were.
C5_FailureLeavesSessionUntouched ==
    [][message' = "error" =>
         /\ \A j, k \in 1..Len(callLog') : callLog'[j] = callLog'[k] => j = k
         /\ UNCHANGED <<df, original_df, edit_mode>>]_vars

C5_Witness ==
    /\ message = "error"
    /\ callLog # <<>>
    /\ callLog[Len(callLog)] = "insert_pending"
    /\ edit_mode
    /\ df # load_data(live)

SameColumns(a, b) ==
    \A j \in 1..Len(a) : \A k \in 1..Len(b) : DOMAIN a[j] = DOMAIN b[k]

IsSubsequence(a, b) ==
    \E f \in [1..Len(a) -> 1..Len(b)] :
      /\ \A j \in 1..Len(a) : a[j][PkCol] = b[f[j]][PkCol]
      /\ \A j, k \in 1..Len(a) : j < k => f[j] < f[k]

ExcludedFromSet ==
    {_db_col_name(PkCol)} \cup
    (IF lockConfigured THEN {_db_col_name(LockCol)} ELSE {})

\* C7: the set list of every merge statement holds no key column and not the
\* lock column, and with a lock column configured the statement stamps it:
\* every row the statement changes carries the store's current time.
C7_LockStampedKeysNeverSet ==
    [][lastStmt'.sent =>
         /\ lastStmt'.set \cap ExcludedFromSet = {}
         /\ lockConfigured => lastStmt'.stamp
         /\ lockConfigured =>
              \A n \in RowIds :
                live'[n] # live[n] => live'[n][_db_col_name(LockCol)] = Ts(now')]_vars

C7_Witness ==
    /\ vOut.r = "returned"
    /\ lockConfigured
    /\ lastStmt.sent
    /\ {_db_col_name(PkCol), _db_col_name(LockCol)} \subseteq stage.cols
    /\ \E n \in RowIds : /\ live[n]["STATUS"] = Text(<<12>>)
                         /\ live[n]["UPDATED_AT"] = Ts(1)

\* C8: merge_changes on an empty change set returns 0 and makes no store
\* call: the staged table and the live table are unchanged.
C8_EmptyChangeSetIsNoOp ==
    [][(vOut.r = "none" /\ vOut'.r # "none" /\ empty(vIn)) =>
         /\ vOut'.r = "returned"
         /\ ret' = 0
         /\ callLog' = <<>>
         /\ ~lastStmt'.sent
         /\ UNCHANGED <<stage, live>>]_vars

C8_Witness ==
    /\ vOut.r = "returned"
    /\ empty(vIn)
    /\ vIn.cols # {}
    /\ ret = 0
    /\ stage = OldStage

\* a column the schema constrains: a text column with a length, a number
\* column with a precision
HasConstraint(meta, c) ==
    /\ _db_col_name(c) \in DOMAIN meta
    /\ LET row == meta[_db_col_name(c)]
       IN  \/ IsCharKind(row.dtype) /\ row.max_len # NA
           \/ IsNumberKind(row.dtype) /\ row.precision # NA

\* a value the constraint of its column rejects
Violating(meta, c, v) ==
    LET row == meta[_db_col_name(c)]
    IN  IF IsCharKind(row.dtype) THEN StrLen(v) > row.max_len
        ELSE CheckNumber(v, row.precision,
                         IF row.scale # NA THEN row.scale ELSE 0).r = "error"

Offending(frame, meta, c) ==
    {j \in 1..Len(frame.rows) :
       notna(frame.rows[j][c]) /\ Violating(meta, c, frame.rows[j][c])}

Reported(frame, meta) ==
    {c \in frame.cols : HasConstraint(meta, c) /\ Offending(frame, meta, c) # {}}

First(S) == CHOOSE j \in S : \A k \in S : j <= k

\* C9: the validator returns a list holding exactly one message for each
\* column with a constraint and a violating non-null value, citing the first
\* such value in row order, and no message for any other column.
C9_CompleteList ==
    vOut.r # "none" =>
      /\ vOut.r = "list"
      /\ \A c \in Reported(vIn, vMeta) :
           /\ Cardinality({k \in 1..Len(vOut.errors) : vOut.errors[k].col = c}) = 1
           /\ \A k \in 1..Len(vOut.errors) :
                vOut.errors[k].col = c =>
                  vOut.errors[k].value = vIn.rows[First(Offending(vIn, vMeta, c))][c]
      /\ \A k \in 1..Len(vOut.errors) : vOut.errors[k].col \in Reported(vIn, vMeta)

\* the digits of a decimal literal, counted on the literal
ParsesAsDecimal(v) == v.k \in {"dec", "inf"}
FracDigits(v) == IF v.k = "dec" THEN Max(Len(v.f) - v.e, 0) ELSE 0
IntDigits(v) ==
    IF v.k = "dec" /\ StripZeros(v.i \o v.f) # <<>>
    THEN Max(Len(StripZeros(v.i \o v.f)) + v.e - Len(v.f), 0)
    ELSE 0

NumberOutcome(v, p, s) ==
    IF ~ParsesAsDecimal(v) THEN "invalid"
    ELSE IF FracDigits(v) > s THEN "scale"
    ELSE IF IntDigits(v) > p - s THEN "precision"
    ELSE "none"

AmountErrors == {k \in 1..Len(vOut.errors) : vOut.errors[k].col = AmountCol}

\* C10: for a number column with precision p and scale s and any non-null
\* value, the validator returns a list: with a 'not a valid NUMBER' entry for
\* a value that is no decimal, else a scale entry for more than s fractional
\* digits, else a precision entry for more than p - s integer digits, else
\* with no entry.
C10_NumberOutcome ==
    ( /\ vOut.r # "none"
      /\ AmountCol \in vIn.cols
      /\ HasConstraint(vMeta, AmountCol)
      /\ IsNumberKind(vMeta["AMOUNT"].dtype)
      /\ Len(dropna(vIn.rows, AmountCol)) = 1 ) =>
      LET v == dropna(vIn.rows, AmountCol)[1]
          s == IF vMeta["AMOUNT"].scale # NA THEN vMeta["AMOUNT"].scale ELSE 0
          want == NumberOutcome(v, vMeta["AMOUNT"].precision, s)
      IN  /\ vOut.r = "list"
          /\ want = "none" => AmountErrors = {}
          /\ want # "none" =>
               \E k \in AmountErrors : /\ vOut.errors[k].type = want
                                       /\ vOut.errors[k].value = v

----------------------------------------------------------------------------
(* TagSpec: load_data() and the column tagger on bounded tables             *)

\* rows of a loaded table
MaxTagRows == 2
\* loads of one process
MaxLoads == 2
\* days a date cell can name
LastDay == 2

\* a text cell in the form '%Y-%m-%d %H:%M:%S%z': a day and a time of day
\* (secs past midnight)
TsText(day, secs) == [k |-> "tsstr", i |-> <<day>>, f |-> <<secs>>, e |-> 0]
\* a text cell in the form '%Y-%m-%d'
DateText(day) == [k |-> "datestr", i |-> <<day>>, f |-> <<>>, e |-> 0]

\* what pd.to_datetime(..., errors="coerce") gives for a cell it cannot parse
NaT == [ok |-> FALSE, day |-> 0, secs |-> 0]

\* pd.to_datetime(df[col], format=fmt, errors="coerce"): a cell parses when
\* it is text in exactly that form; a null cell and any other cell give NaT
to_datetime(col, fmt) ==
    [j \in 1..Len(col) |->
       IF col[j].k = fmt
       THEN [ok |-> TRUE, day |-> col[j].i[1],
             secs |-> IF fmt = "tsstr" THEN col[j].f[1] ELSE 0]
       ELSE NaT]

\* parsed.notna().all()
notna_all(parsed) == \A j \in 1..Len(parsed) : parsed[j].ok

\* is_numeric(df[col]) after convert_dtypes(): a column of numbers and nulls
is_numeric(col) ==
    /\ \A j \in 1..Len(col) : col[j].k \in {"dec", "null"}
    /\ \E j \in 1..Len(col) : col[j].k = "dec"

MinDayOf(parsed) ==
    CHOOSE d \in {parsed[j].day : j \in 1..Len(parsed)} :
      \A j \in 1..Len(parsed) : d <= parsed[j].day
MaxDayOf(parsed) ==
    CHOOSE d \in {parsed[j].day : j \in 1..Len(parsed)} :
      \A j \in 1..Len(parsed) : d >= parsed[j].day

noTag == [type |-> "none", min_date |-> 0, max_date |-> 0]

\* the body of the for-col loop: the entry written for the column, noTag when
\* the loop writes none
TagColumn(col) ==
    IF is_numeric(col) THEN noTag
    ELSE
      LET first == to_datetime(col, "tsstr")
          parsed == IF ~notna_all(first) THEN to_datetime(col, "datestr")
                    ELSE first
      IN  IF notna_all(parsed)
          THEN [type |-> IF \A j \in 1..Len(parsed) : parsed[j].secs = 0
                         THEN "date" ELSE "timestamp",
                min_date |-> MinDayOf(parsed),
                max_date |-> MaxDayOf(parsed)]
          ELSE noTag

\* auto_convert_dtypes(df): what the for-col loop leaves in column_tags, which
\* held tags when the call began; the loop writes column_tags[col] for a column
\* it accepts and touches no other entry
auto_convert_dtypes(raw, tags) ==
    LET accepted == {c \in DOMAIN raw : TagColumn(raw[c]).type # "none"}
    IN  [c \in DOMAIN tags \cup accepted |->
           IF c \in accepted THEN TagColumn(raw[c]) ELSE tags[c]]

\* a text column of the table
CreatedCol == "Created"

\* cells of a text column
TagCells ==
    {NULL, Text(<<10>>)} \cup {DateText(d) : d \in 1..LastDay}
      \cup {TsText(1, s) : s \in {0, 1}}
\* cells of a number column
NumberCells == {NULL, Int1(1)}

\* the column as SELECT * can return it: text cells, or numbers
TagColumnsOf(n) == [1..n -> TagCells] \cup [1..n -> NumberCells]

\* tables of 1..MaxTagRows rows: the key column and the text column
TagTables ==
    UNION {{[c \in {PkCol, CreatedCol} |->
               IF c = PkCol THEN [j \in 1..n |-> Int1(j)] ELSE col] :
            col \in TagColumnsOf(n)} : n \in 1..MaxTagRows}

InitTag ==
    /\ InitIdle
    /\ stage = emptyFrame
    /\ vIn = emptyFrame
    /\ vMeta = SchemaMeta
    /\ vOut = noCall
    /\ InitTagsIdle
    /\ InitEditorsIdle

\* one load_data() that runs its body (first load, or after
\* st.cache_data.clear() in refresh_data, or after the ttl): the store returns
\* table t
LoadData(t) ==
    /\ loads < MaxLoads
    /\ tRaw' = t
    /\ column_tags' = auto_convert_dtypes(t, column_tags)
    /\ loads' = loads + 1
    /\ UNCHANGED <<appVars, valVars, conVars>>

NextTag == \E t \in TagTables : LoadData(t)

TagSpec == InitTag /\ [][NextTag]_vars

\* the non-null cells of a column all have the form fmt
AllNonNullParse(col, fmt) ==
    \A j \in 1..Len(col) : notna(col[j]) => col[j].k = fmt

SomeNonNull(col) == \E j \in 1..Len(col) : notna(col[j])

\* every non-null cell names midnight
AllMidnight(col) ==
    \A j \in 1..Len(col) :
      (notna(col[j]) /\ col[j].k = "tsstr") => col[j].f[1] = 0

\* C11: after a load into an empty registry, a non-numeric column (with a
\* non-null value) has a tag if and only if all its non-null values parse
\* under the timestamp format or all under the date-only format; the tag is
\* date when every parsed instant is midnight, else timestamp; a numeric
\* column has no tag.
C11_TaggerClassifies ==
    loads = 1 =>
      \A c \in DOMAIN tRaw :
        IF is_numeric(tRaw[c]) THEN c \notin DOMAIN column_tags
        ELSE SomeNonNull(tRaw[c]) =>
          /\ c \in DOMAIN column_tags <=>
               \/ AllNonNullParse(tRaw[c], "tsstr")
               \/ AllNonNullParse(tRaw[c], "datestr")
          /\ c \in DOMAIN column_tags =>
               column_tags[c].type =
                 IF AllMidnight(tRaw[c]) THEN "date" ELSE "timestamp"

\* C12: after every load column_tags holds exactly the entries this load
\* wrote: an entry, with this load's bounds, for each column this load
\* accepted as temporal, and no entry of an earlier load.
C12_RegistryRebuilt ==
    loads >= 1 => column_tags = auto_convert_dtypes(tRaw, noTags)

----------------------------------------------------------------------------
(* EditorsSpec: two sessions that loaded the same table save into it        *)

Editors == {1, 2}

\* what editor e types into a cell of a column: values the schema accepts
EditorVal(e, c) ==
    IF c = StatusCol THEN Text(<<10 + e>>)
    ELSE IF e = 1 THEN Dec(<<2>>, <<5>>, 0) ELSE Int1(3)

\* the snapshot both sessions loaded
BaseSnapshot == load_data(InitialTable)

\* a session in edit mode on the unfiltered table, nothing saved yet
InitEditors ==
    /\ InitIdle
    /\ stage = emptyFrame
    /\ vIn = emptyFrame
    /\ vMeta = SchemaMeta
    /\ vOut = noCall
    /\ InitTagsIdle
    /\ editors = [e \in Editors |->
                    [original_df |-> OriginalAtEdit(BaseSnapshot, BaseSnapshot),
                     edited |-> df_to_show(BaseSnapshot),
                     saved |-> FALSE]]
    /\ mergeOrder = <<>>

\* editor e commits one cell of the data editor
EditorEdit(e, pos, c) ==
    /\ ~editors[e].saved
    /\ pos \in 1..Len(editors[e].edited)
    /\ editors[e].edited[pos][c] # EditorVal(e, c)
    /\ editors' = [editors EXCEPT ![e].edited[pos][c] = EditorVal(e, c)]
    /\ UNCHANGED <<appVars, valVars, tagVars, mergeOrder>>

\* editor e presses Save Changes and the save succeeds
EditorSave(e) ==
    /\ ~editors[e].saved
    /\ LET run == SaveHandler(StoreState(live, stage, pending, now),
                              editors[e].edited, editors[e].original_df,
                              lockConfigured, "none")
           S == run.store
       IN  /\ run.outcome = "saved"
           /\ live' = S.live
           /\ stage' = S.stage
           /\ pending' = S.pending
           /\ now' = S.now
           /\ callLog' = S.calls
           /\ lastStmt' = S.stmt
           /\ ret' = S.ret
           /\ message' = run.outcome
    /\ editors' = [editors EXCEPT ![e].saved = TRUE]
    /\ mergeOrder' = Append(mergeOrder, e)
    /\ UNCHANGED <<lockConfigured, df, original_df, filtered_df,
                   filters_string, edit_mode, edited, valVars, tagVars>>

NextEditors ==
    \/ \E e \in Editors, pos \in 1..MAX_ROWS, c \in EditableCols :
         EditorEdit(e, pos, c)
    \/ \E e \in Editors : EditorSave(e)

EditorsSpec == InitEditors /\ [][NextEditors]_vars

\* the value editor e's editor shows for the cell of key and column c
EditorCell(e, key, c) ==
    IF HasRow(editors[e].edited, key) THEN RowOf(editors[e].edited, key)[c]
    ELSE RowOf(BaseSnapshot, key)[c]

\* editor e changed the cell
EditorChanged(e, key, c) ==
    EditorCell(e, key, c) # RowOf(BaseSnapshot, key)[c]

\* both editors changed a cell of one row
SameRowChanged ==
    \E n \in RowIds :
      \A e \in Editors : \E c \in EditableCols : EditorChanged(e, Int1(n), c)

\* C13: when both editors have saved changes to one row, every cell holds the
\* later merge's value if that editor changed it, else the earlier merge's
\* value if that editor changed it, else the value of the base snapshot.
C13_LastWriteWinsPerCell ==
    (Len(mergeOrder) = 2 /\ SameRowChanged) =>
      \A n \in RowIds : \A c \in EditableCols :
        live[n][_db_col_name(c)] =
          IF EditorChanged(mergeOrder[2], Int1(n), c)
          THEN EditorCell(mergeOrder[2], Int1(n), c)
          ELSE IF EditorChanged(mergeOrder[1], Int1(n), c)
          THEN EditorCell(mergeOrder[1], Int1(n), c)
          ELSE RowOf(BaseSnapshot, Int1(n))[c]

====
